---- MODULE Spec2Model ----
(***************************************************************************)
(* git-series-manager: the format-patch workflow (src/src/main.rs).        *)
(*                                                                         *)
(* Text is modelled as a sequence of tokens: a token is a piece of text    *)
(* that the program never looks inside (a word, a marker, one newline).    *)
(* The patch store of one branch is modelled as the branch directory, its  *)
(* cover-letter template and its numbered version directories.             *)
(***************************************************************************)
EXTENDS Integers, Sequences, FiniteSets, TLC

(***************************************************************************)
(* Bounds of the model.                                                    *)
(***************************************************************************)
\* version numbers a run may target: 1..MaxVersion
MaxVersion == 2
\* invocations of format-patch in one behaviour
MaxRuns == 2
\* numeric entry names given to latest_version on its own: 0..MaxEntry
MaxEntry == 10

(***************************************************************************)
(* Text.                                                                   *)
(***************************************************************************)
NL == "\n"
SP == " "
TITLE_PREFIX == "Title: "
SUBJECT_MARKER == "*** SUBJECT HERE ***"
BLURB_MARKER == "*** BLURB HERE ***"
COVER_LETTER_NAME == <<"cover-letter">>
COVER_LETTER_SUFFIX == <<"cover-letter", ".patch">>

Whitespace == {NL, SP}

Digits == <<"0", "1", "2", "3", "4", "5", "6", "7", "8", "9">>

DigitSet == {Digits[i] : i \in 1..Len(Digits)}

DigitVal(c) == (CHOOSE i \in 1..Len(Digits) : Digits[i] = c) - 1

\* u64::to_string
RECURSIVE ToStr(_)
ToStr(n) ==
    IF n < Len(Digits) THEN <<Digits[n + 1]>>
    ELSE ToStr(n \div Len(Digits)) \o <<Digits[(n % Len(Digits)) + 1]>>

\* str::parse::<u64> succeeds on a non-empty run of decimal digits
IsInt(name) == Len(name) > 0 /\ \A i \in 1..Len(name) : name[i] \in DigitSet

RECURSIVE ParseFrom(_, _)
ParseFrom(name, acc) ==
    IF name = <<>> THEN acc
    ELSE ParseFrom(Tail(name), acc * Len(Digits) + DigitVal(Head(name)))

Parse(name) == ParseFrom(name, 0)

\* str::trim
RECURSIVE TrimStart(_)
TrimStart(s) ==
    IF s # <<>> /\ Head(s) \in Whitespace THEN TrimStart(Tail(s)) ELSE s

RECURSIVE TrimEnd(_)
TrimEnd(s) ==
    IF s # <<>> /\ s[Len(s)] \in Whitespace
    THEN TrimEnd(SubSeq(s, 1, Len(s) - 1)) ELSE s

Trim(s) == TrimEnd(TrimStart(s))

\* str::replace: every occurrence of the marker, left to right
RECURSIVE Replace(_, _, _)
Replace(s, marker, by) ==
    IF s = <<>> THEN <<>>
    ELSE (IF Head(s) = marker THEN by ELSE <<Head(s)>>) \o Replace(Tail(s), marker, by)

Contains(s, tok) == \E i \in 1..Len(s) : s[i] = tok

EndsWith(s, suffix) ==
    /\ Len(s) >= Len(suffix)
    /\ SubSeq(s, Len(s) - Len(suffix) + 1, Len(s)) = suffix

\* str::split_once('\n'): the text before and after the first newline, if any
SplitOnce(s) ==
    IF ~Contains(s, NL) THEN [some |-> FALSE, fst |-> <<>>, snd |-> <<>>]
    ELSE LET i == CHOOSE k \in 1..Len(s) :
                     s[k] = NL /\ \A j \in 1..(k - 1) : s[j] # NL
         IN [some |-> TRUE, fst |-> SubSeq(s, 1, i - 1), snd |-> SubSeq(s, i + 1, Len(s))]

\* str::strip_prefix("Title: ")
StripPrefix(line) ==
    IF line # <<>> /\ Head(line) = TITLE_PREFIX
    THEN [some |-> TRUE, rest |-> Tail(line)]
    ELSE [some |-> FALSE, rest |-> <<>>]

(***************************************************************************)
(* latest_version.                                                         *)
(***************************************************************************)
Ret(kind, v) == [kind |-> kind, v |-> v]

\* the try_fold over the directory entries, cover-letter filtered out
RECURSIVE FoldMax(_, _)
FoldMax(names, cur) ==
    IF names = {} THEN cur
    ELSE LET name == CHOOSE n \in names : TRUE
             version == Parse(name)
         IN FoldMax(names \ {name}, IF version > cur THEN version ELSE cur)

\* faulty variant: cover-letter is filtered out before the peek
LatestVersionFiltersFirst(exists, entries) ==
    IF ~exists THEN Ret("Err", 0)
    ELSE IF \E n \in entries : n # COVER_LETTER_NAME /\ ~IsInt(n) THEN Ret("panic", 0)
    ELSE IF entries \ {COVER_LETTER_NAME} = {} THEN Ret("None", 0)
    ELSE Ret("Some", FoldMax(entries \ {COVER_LETTER_NAME}, 0))

\* latest_version(branch_dir): exists = the directory can be read,
\* entries = the names read_dir yields
LatestVersion(exists, entries) ==
    IF ~exists THEN Ret("Err", 0)
    ELSE IF entries = {} THEN Ret("None", 0)
    ELSE IF \E n \in entries : n # COVER_LETTER_NAME /\ ~IsInt(n) THEN Ret("panic", 0)
    ELSE Ret("Some", FoldMax(entries \ {COVER_LETTER_NAME}, 0))

(***************************************************************************)
(* The patch store and the repository.                                     *)
(***************************************************************************)
VARIABLES
    pc,          \* position of the current run in FormatPatch::run
    args,        \* the command line of the current run
    result,      \* "none" while running; "ok", "err", "panic" or "abort" at exit
    error,       \* the error the run returns (`?` or return Err), "none" if none
    panicking,   \* a Drop impl has panicked and the stack is unwinding
    guardBranch, \* a TempBranch value is live
    guardWt,     \* a GitWorktree value is live
    guardDir,    \* a VersionDir value is live
    tbranch,     \* the branch __patch_old exists in the repository
    worktree,    \* the run's worktree: "none", "detached" or "on_branch"
    tmpdir,      \* the run's temporary directory exists
    stalePin,    \* a worktree left by an earlier run has __patch_old checked out
    branchDir,   \* the branch directory exists
    template,    \* <branch_dir>/cover-letter
    vdirs,       \* <branch_dir>/<n> for each version number n
    old,         \* vdirs and template when the run started
    version,     \* the local `version`: Option<u64>
    target,      \* the number naming version_dir, 0 before it is computed
    removed,     \* the run removed an existing version_dir (--force)
    dirMade,     \* the patch-generation command created version_dir
    patches,     \* the paths given to `am -3`
    editorExit,  \* exit status of the editor: "none", "zero", "nonzero"
    preBind,     \* name and text of the cover-letter patch read by the bind phase
    log,         \* the external commands issued by the run, in order
    runs,        \* invocations started so far
    lvIn,        \* entries handed to latest_version on its own
    lvOut,       \* what it returned
    branch,      \* what `git branch --show-current` prints
    series,      \* what the commits of the branch are like
    elsewhere    \* the files of the patch directory the branch has not written

vars == <<pc, args, result, error, panicking, guardBranch, guardWt, guardDir,
          tbranch, worktree, tmpdir, stalePin, branchDir, template, vdirs, old,
          version, target, removed, dirMade, patches, editorExit, preBind, log,
          runs, lvIn, lvOut, branch, series, elsewhere>>

Versions == 1..MaxVersion

\* the branch of a fresh repository
BRANCH == <<"feature">>

\* names a branch can have: plain, holding the text cover-letter, nested
Branches == {BRANCH, <<"fix-", "cover-letter">>, <<"feature", "/", "1">>}

\* what the series can be: two commits, a commit titled "cover letter"
\* among them, no commit at all
Series == {"plain", "titled", "empty"}

NoneV == [some |-> FALSE, v |-> 0]
SomeV(n) == [some |-> TRUE, v |-> n]
OptVersion == {NoneV} \cup {SomeV(n) : n \in Versions}

NoDir == [exists |-> FALSE, files |-> <<>>]
EmptyDir == [exists |-> TRUE, files |-> <<>>]
NoTemplate == [exists |-> FALSE, text |-> <<>>]
File(text) == [exists |-> TRUE, text |-> text]

\* patch_dir.join(&branch): a name with separators in it is a nested path
BranchPathOf(b) == <<".patches", "/">> \o b
BranchPath == BranchPathOf(branch)

\* the path p lies inside the directory d
Under(p, d) ==
    /\ Len(p) > Len(d) + 1
    /\ SubSeq(p, 1, Len(d)) = d
    /\ p[Len(d) + 1] = "/"

\* the first component of a relative path
FirstComponent(rel) ==
    IF Contains(rel, "/")
    THEN SubSeq(rel, 1, (CHOOSE k \in 1..Len(rel) :
                            rel[k] = "/" /\ \A j \in 1..(k - 1) : rel[j] # "/") - 1)
    ELSE rel

\* names of the entries of directory d that come from `elsewhere`
ElsewhereEntries(d) ==
    {FirstComponent(SubSeq(f.path, Len(d) + 2, Len(f.path))) :
        f \in {g \in elsewhere : Under(g.path, d)}}
\* branch_dir.join(version.to_string())
VersionPath(n) == BranchPath \o <<"/">> \o ToStr(n)

\* names read_dir(branch_dir) yields
BranchEntries ==
    {ToStr(n) : n \in {m \in Versions : vdirs[m].exists}}
        \cup (IF template.exists THEN {COVER_LETTER_NAME} ELSE {})
        \cup ElsewhereEntries(BranchPath)

(***************************************************************************)
(* What the external programs produce.                                     *)
(***************************************************************************)
\* file names `git format-patch -o <dir> [-v <n>] --cover-letter` writes
RerollPrefix(ver) == IF ver.some THEN <<"v">> \o ToStr(ver.v) \o <<"-">> ELSE <<>>
CoverPatchName(ver) == RerollPrefix(ver) \o <<"0000-">> \o COVER_LETTER_SUFFIX
PatchName(ver, k) == RerollPrefix(ver) \o <<"000">> \o ToStr(k) \o <<"-change", ".patch">>

\* the cover letter git generates: one subject marker, one blurb marker
CoverSkeleton ==
    <<"Subject: [PATCH 0/2] ", SUBJECT_MARKER, NL, NL, BLURB_MARKER, NL, NL, "shortlog">>

\* the patch of a commit whose subject is "cover letter"
TitledPatchName(ver) == RerollPrefix(ver) \o <<"0001-">> \o COVER_LETTER_SUFFIX

\* with no commit in the range git writes nothing, the cover letter neither
GeneratedFor(kind, ver) ==
    [exists |-> TRUE,
     files |-> CASE kind = "plain" ->
                      (CoverPatchName(ver) :> CoverSkeleton)
                         @@ (PatchName(ver, 1) :> <<"diff 1">>)
                         @@ (PatchName(ver, 2) :> <<"diff 2">>)
                 [] kind = "titled" ->
                      (CoverPatchName(ver) :> CoverSkeleton)
                         @@ (TitledPatchName(ver) :> <<"diff 1">>)
                         @@ (PatchName(ver, 2) :> <<"diff 2">>)
                 [] kind = "empty" -> <<>>]

Generated(ver) == GeneratedFor(series, ver)

\* the template the tool writes when there is none (no CI link configured)
InitialTemplate == <<TITLE_PREFIX, NL, NL, "Branch: ">> \o branch \o <<NL>>

\* what the operator may leave in the template
EditedTemplates ==
    { <<TITLE_PREFIX, "Fix bug", SP, NL, NL, "Details here.", NL>>,
      <<TITLE_PREFIX, "Fix bug">>,
      <<"Fix bug">>,
      <<"Fix bug", NL, "Details here.">>,
      <<TITLE_PREFIX, BLURB_MARKER, NL, "Details here.">> }

(***************************************************************************)
(* Steps shared by the actions.                                            *)
(***************************************************************************)
Cmd(name, ok) == [cmd |-> name, ok |-> ok]

Issue(name, ok) == log' = Append(log, Cmd(name, ok))

\* the function returns: every guard has been dropped
Finish(kind) == pc' = "done" /\ result' = kind

\* faulty variant: the TempBranch guard is never dropped
UnwindForgetsBranch(gWt, gBranch, gDir) ==
    IF gWt THEN "drop_wt"
    ELSE IF gDir THEN "drop_dir"
    ELSE "done"

\* faulty variant: the TempBranch guard is declared after the GitWorktree guard
UnwindBranchFirst(gWt, gBranch, gDir) ==
    IF gBranch THEN "drop_branch"
    ELSE IF gWt THEN "drop_wt"
    ELSE IF gDir THEN "drop_dir"
    ELSE "done"

\* where control goes once the step at hand is over, error or not:
\* the live guards are dropped in reverse order of declaration
Unwind(gWt, gBranch, gDir) ==
    IF gWt THEN "drop_wt"
    ELSE IF gBranch THEN "drop_branch"
    ELSE IF gDir THEN "drop_dir"
    ELSE "done"

\* `?` on an Err, or `return Err(..)`
Raise(e) ==
    /\ error' = e
    /\ LET next == Unwind(guardWt, guardBranch, guardDir)
       IN /\ pc' = next
          /\ result' = IF next = "done" THEN "err" ELSE result

Running(at) == pc = at /\ result = "none"

repo == <<tbranch, worktree, tmpdir, stalePin>>
store == <<branchDir, template, vdirs>>
guards == <<guardBranch, guardWt, guardDir>>
locals == <<version, target, removed, dirMade, patches, editorExit, preBind>>
pure == <<runs, lvIn, lvOut>>
world == <<branch, series, elsewhere>>

Goto(next) == pc' = next /\ UNCHANGED <<result, error>>

\* the locals of the interdiff block are gone: the block yields its value,
\* returns its error, or the panic goes on unwinding; the VersionDir the
\* block was about to yield may or may not be dropped by the unwinding
BlockExit(panic) ==
    IF panic
    THEN /\ UNCHANGED error
         /\ \/ guardDir /\ pc' = "drop_dir" /\ UNCHANGED result
            \/ Finish("panic")
    ELSE IF error # "none" THEN Finish("err") /\ UNCHANGED error
    ELSE Goto("draft")

(***************************************************************************)
(* FormatPatch::run, one action per step.                                  *)
(***************************************************************************)
\* faulty variant: the latest version itself is taken
NextVersionSame(lv) == IF lv.kind = "Some" THEN SomeV(lv.v) ELSE NoneV

\* version.map(|v| v + 1) on the result of latest_version
NextVersion(lv) == IF lv.kind = "Some" THEN SomeV(lv.v + 1) ELSE NoneV

\* faulty variant: the directory is removed whether --force was given or not
AllocateDirAlwaysRemoves(dir, force) == [conflict |-> FALSE, dir |-> NoDir]

\* faulty variant: with --force the directory is kept as it is
AllocateDirKeeps(dir, force) ==
    IF dir.exists /\ ~force THEN [conflict |-> TRUE, dir |-> dir]
    ELSE [conflict |-> FALSE, dir |-> dir]

\* the version_dir.exists() check: conflict, or the directory after it
AllocateDir(dir, force) ==
    IF dir.exists /\ ~force THEN [conflict |-> TRUE, dir |-> dir]
    ELSE [conflict |-> FALSE, dir |-> NoDir]

\* faulty variant: the prefix is looked for before the newline
ParseTemplatePrefixFirst(text) ==
    LET split == SplitOnce(text)
        line == IF split.some THEN split.fst ELSE text
        title == StripPrefix(line)
    IN IF ~title.some THEN [error |-> "MissingTitlePrefix", title |-> <<>>, body |-> <<>>]
       ELSE IF ~split.some THEN [error |-> "MissingTitleNewline", title |-> <<>>, body |-> <<>>]
       ELSE [error |-> "none", title |-> title.rest, body |-> split.snd]

\* title and body of the edited template
ParseTemplate(text) ==
    LET split == SplitOnce(text)
        title == StripPrefix(split.fst)
    IN IF ~split.some THEN [error |-> "MissingTitleNewline", title |-> <<>>, body |-> <<>>]
       ELSE IF ~title.some THEN [error |-> "MissingTitlePrefix", title |-> <<>>, body |-> <<>>]
       ELSE [error |-> "none", title |-> title.rest, body |-> split.snd]

\* the two chained str::replace calls
BindText(content, title, body) ==
    Replace(Replace(content, SUBJECT_MARKER, Trim(title)), BLURB_MARKER, Trim(body))

\* faulty variant: the guard is still live when the function returns
ForgetMissing(guard) == guard

\* std::mem::forget(_version_dir): whether the guard is live afterwards
Forget(guard) == FALSE

\* faulty variant: the template is written whether it exists or not
DraftTemplateAlways(t) == File(InitialTemplate)

\* the template after the draft phase: written only if it does not exist
DraftTemplate(t) == IF t.exists THEN t ELSE File(InitialTemplate)

\* the entries of the old version directory that are handed to `am -3`
InterdiffPaths(n) ==
    {p \in {VersionPath(n) \o <<"/">> \o name : name \in DOMAIN vdirs[n].files} :
        ~Contains(p, "cover-letter")}

Orders(S) ==
    {s \in [1..Cardinality(S) -> S] : \A i, j \in 1..Cardinality(S) : i # j => s[i] # s[j]}

\* a new invocation of `gsm format-patch [-v n] [--force] [-d m] [--send]`
Start(v, f, d, s) ==
    /\ pc \in {"idle", "done"}
    /\ runs < MaxRuns
    /\ runs' = runs + 1
    /\ v.some \/ NextVersion(LatestVersion(TRUE, BranchEntries)).v <= MaxVersion
    /\ args' = [cmd |-> "format-patch", version |-> v, force |-> f, diff |-> d,
                send |-> s, local_only |-> FALSE, verbose |-> FALSE]
    /\ pc' = "branch"
    /\ result' = "none"
    /\ error' = "none"
    /\ panicking' = FALSE
    /\ guardBranch' = FALSE /\ guardWt' = FALSE /\ guardDir' = FALSE
    /\ stalePin' = (stalePin \/ worktree = "on_branch")
    /\ worktree' = "none"
    /\ tmpdir' = FALSE
    /\ old' = [vdirs |-> vdirs, template |-> template]
    /\ version' = NoneV /\ target' = 0 /\ removed' = FALSE /\ dirMade' = FALSE
    /\ patches' = <<>> /\ editorExit' = "none"
    /\ preBind' = [name |-> <<>>, text |-> <<>>]
    /\ log' = <<>>
    /\ UNCHANGED <<tbranch, store, lvIn, lvOut, world>>

\* git branch --show-current
ShowCurrentBranch ==
    /\ Running("branch")
    /\ \E ok \in BOOLEAN :
          /\ Issue("branch --show-current", ok)
          /\ IF ok THEN Goto("component") ELSE Raise("git")
    /\ UNCHANGED <<args, panicking, guards, repo, store, old, locals, pure, world>>

\* git remote get-url origin, and the strip_prefix of the url base
RemoteGetUrl ==
    /\ Running("component")
    /\ \E out \in {"ok", "fail", "other base"} :
          /\ Issue("remote get-url", out # "fail")
          /\ IF out = "ok" THEN Goto("allocate")
             ELSE Raise(IF out = "fail" THEN "git" ELSE "url")
    /\ UNCHANGED <<args, panicking, guards, repo, store, old, locals, pure, world>>

\* create the branch directory, choose the version, check the version directory
Allocate ==
    /\ Running("allocate")
    /\ branchDir' = TRUE
    /\ LET lv == LatestVersion(TRUE, BranchEntries)
           ver == IF args.version.some THEN args.version ELSE NextVersion(lv)
           tgt == IF ver.some THEN ver.v ELSE 1
           got == AllocateDir(vdirs[tgt], args.force)
       IN IF ~args.version.some /\ lv.kind = "panic"
          THEN /\ panicking' = TRUE
               /\ Finish("panic")
               /\ UNCHANGED <<error, version, target, vdirs, removed>>
          ELSE /\ version' = ver
               /\ target' = tgt
               /\ UNCHANGED panicking
               /\ IF got.conflict
                  THEN Raise("VersionConflict") /\ UNCHANGED <<vdirs, removed>>
                  ELSE /\ vdirs' = [vdirs EXCEPT ![tgt] = got.dir]
                       /\ removed' = vdirs[tgt].exists
                       /\ Goto(IF args.diff.some THEN "mkbranch" ELSE "fmt")
    /\ UNCHANGED <<args, guards, repo, template, old, dirMade, patches,
                   editorExit, preBind, log, pure, world>>

\* git branch __patch_old <base>; a branch that exists cannot be created
CreateBranch ==
    /\ Running("mkbranch")
    /\ \E ok \in BOOLEAN :
          /\ tbranch => ~ok
          /\ Issue("branch", ok)
          /\ IF ok
             THEN tbranch' = TRUE /\ guardBranch' = TRUE /\ Goto("tempdir")
             ELSE Raise("git") /\ UNCHANGED <<tbranch, guardBranch>>
    /\ UNCHANGED <<args, panicking, guardWt, guardDir, worktree, tmpdir, stalePin,
                   store, old, locals, pure, world>>

\* TempDir::new
CreateTempDir ==
    /\ Running("tempdir")
    /\ \E ok \in BOOLEAN :
          IF ok THEN tmpdir' = TRUE /\ Goto("wtadd")
          ELSE Raise("io") /\ UNCHANGED tmpdir
    /\ UNCHANGED <<args, panicking, guards, tbranch, worktree, stalePin, store, old,
                   locals, log, pure, world>>

\* git worktree add --detach <tmpdir>; on failure the TempDir is dropped
WorktreeAdd ==
    /\ Running("wtadd")
    /\ \E ok \in BOOLEAN :
          /\ Issue("worktree add", ok)
          /\ IF ok
             THEN worktree' = "detached" /\ guardWt' = TRUE /\ Goto("switch")
                  /\ UNCHANGED tmpdir
             ELSE tmpdir' = FALSE /\ Raise("git") /\ UNCHANGED <<worktree, guardWt>>
    /\ UNCHANGED <<args, panicking, guardBranch, guardDir, tbranch, stalePin, store,
                   old, locals, pure, world>>

\* git -C <worktree> switch __patch_old
Switch ==
    /\ Running("switch")
    /\ \E ok \in BOOLEAN :
          /\ Issue("switch", ok)
          /\ IF ok THEN worktree' = "on_branch" /\ Goto("readold")
             ELSE Raise("git") /\ UNCHANGED worktree
    /\ UNCHANGED <<args, panicking, guards, tbranch, tmpdir, stalePin, store, old,
                   locals, pure, world>>

\* read_dir of the old version, in whatever order the directory yields
ReadOld ==
    /\ Running("readold")
    /\ IF ~vdirs[args.diff.v].exists
       THEN Raise("ReadInterdiff") /\ UNCHANGED patches
       ELSE \E order \in Orders(InterdiffPaths(args.diff.v)) :
               patches' = order /\ Goto("am")
    /\ UNCHANGED <<args, panicking, guards, repo, store, old, version, target,
                   removed, dirMade, editorExit, preBind, log, pure, world>>

\* git -C <worktree> am -3 <patches>
ApplyOld ==
    /\ Running("am")
    /\ \E ok \in BOOLEAN :
          /\ Issue("am -3", ok)
          /\ IF ok THEN Goto("fmt") ELSE Raise("git")
    /\ UNCHANGED <<args, panicking, guards, repo, store, old, locals, pure, world>>

\* the format_patch closure: git format-patch -o <version_dir> ..., and the
\* VersionDir guard only once the command has succeeded; a command that
\* fails may have created the directory already
FormatPatchCmd ==
    /\ Running("fmt")
    /\ \E out \in {"ok", "fail", "fail after mkdir"} :
          /\ Issue("format-patch", out = "ok")
          /\ CASE out = "ok" ->
                    /\ vdirs' = [vdirs EXCEPT ![target] =
                                    [exists |-> TRUE,
                                     files |-> Generated(version).files @@ @.files]]
                    /\ dirMade' = TRUE
                    /\ guardDir' = TRUE
                    /\ Goto(IF guardWt \/ guardBranch
                            THEN Unwind(guardWt, guardBranch, FALSE) ELSE "draft")
               [] out = "fail" ->
                    /\ Raise("git")
                    /\ UNCHANGED <<vdirs, dirMade, guardDir>>
               [] out = "fail after mkdir" ->
                    /\ vdirs' = [vdirs EXCEPT ![target] =
                                    [exists |-> TRUE, files |-> @.files]]
                    /\ dirMade' = TRUE
                    /\ Raise("git")
                    /\ UNCHANGED guardDir
    /\ UNCHANGED <<args, panicking, guardBranch, guardWt, repo, branchDir, template,
                   old, version, target, removed, patches, editorExit, preBind, pure, world>>

\* impl Drop for GitWorktree: git worktree remove <path>, unwrap()ed; then
\* the TempDir field is dropped
DropWorktree ==
    /\ pc = "drop_wt" /\ result = "none"
    /\ \E ok \in BOOLEAN :
          /\ Issue("worktree remove", ok)
          /\ worktree' = IF ok THEN "none" ELSE worktree
          /\ panicking' = (panicking \/ ~ok)
          /\ IF panicking /\ ~ok
             THEN Finish("abort") /\ UNCHANGED <<error, guardWt, tmpdir>>
             ELSE /\ guardWt' = FALSE
                  /\ tmpdir' = FALSE
                  /\ LET next == Unwind(FALSE, guardBranch, FALSE)
                     IN IF next # "done" THEN Goto(next) ELSE BlockExit(panicking \/ ~ok)
    /\ UNCHANGED <<args, guardBranch, guardDir, tbranch, stalePin, store, old, locals,
                   pure, world>>

\* a worktree that has the branch checked out pins it: git refuses to delete it
Pinned == worktree = "on_branch" \/ stalePin

\* impl Drop for TempBranch: git branch -D __patch_old, unwrap()ed
DropBranch ==
    /\ pc = "drop_branch" /\ result = "none"
    /\ \E ok \in BOOLEAN :
          /\ Pinned => ~ok
          /\ Issue("branch -D", ok)
          /\ tbranch' = IF ok THEN FALSE ELSE tbranch
          /\ panicking' = (panicking \/ ~ok)
          /\ IF panicking /\ ~ok
             THEN Finish("abort") /\ UNCHANGED <<error, guardBranch>>
             ELSE /\ guardBranch' = FALSE
                  /\ LET next == Unwind(guardWt, FALSE, FALSE)
                     IN IF next # "done" THEN Goto(next) ELSE BlockExit(panicking \/ ~ok)
    /\ UNCHANGED <<args, guardWt, guardDir, worktree, tmpdir, stalePin, store, old,
                   locals, pure, world>>

\* the draft phase: write the template unless it exists
Draft ==
    /\ Running("draft")
    /\ template' = DraftTemplate(template)
    /\ Goto("editor")
    /\ UNCHANGED <<args, panicking, guards, repo, branchDir, vdirs, old, locals, log,
                   pure, world>>

\* Command::new(config.editor).arg(&cover_letter).status(): only a failure to
\* launch is an error, the exit status is not looked at
Editor ==
    /\ Running("editor")
    /\ \/ /\ Issue("editor", FALSE)
          /\ Raise("io")
          /\ UNCHANGED <<template, editorExit>>
       \/ \E t \in {template, NoTemplate} \cup {File(x) : x \in EditedTemplates},
             st \in {"zero", "nonzero"} :
             /\ Issue("editor", st = "zero")
             /\ template' = t
             /\ editorExit' = st
             /\ Goto("bind")
    /\ UNCHANGED <<args, panicking, guards, repo, branchDir, vdirs, old, version,
                   target, removed, dirMade, patches, preBind, pure, world>>

\* the bind phase: read the template back, parse it, find the cover-letter
\* patch (the last matching entry the directory yields), rewrite it, and
\* forget the VersionDir guard
Bind ==
    /\ Running("bind")
    /\ LET parsed == ParseTemplate(template.text)
           dir == vdirs[target]
           covers == {n \in DOMAIN dir.files : EndsWith(n, COVER_LETTER_SUFFIX)}
       IN IF ~template.exists THEN Raise("io") /\ UNCHANGED <<vdirs, preBind, guardDir>>
          ELSE IF parsed.error # "none"
             THEN Raise(parsed.error) /\ UNCHANGED <<vdirs, preBind, guardDir>>
          ELSE IF ~dir.exists THEN Raise("io") /\ UNCHANGED <<vdirs, preBind, guardDir>>
          ELSE IF covers = {}
             THEN Raise("CoverLetterNotFound") /\ UNCHANGED <<vdirs, preBind, guardDir>>
          ELSE \E c \in covers :
                  /\ preBind' = [name |-> c, text |-> dir.files[c]]
                  /\ vdirs' = [vdirs EXCEPT ![target].files[c] =
                                  BindText(@, parsed.title, parsed.body)]
                  /\ guardDir' = Forget(guardDir)
                  /\ IF Forget(guardDir)
                     THEN pc' = Unwind(FALSE, FALSE, TRUE) /\ UNCHANGED result
                     ELSE Finish("ok")
                  /\ UNCHANGED error
    /\ UNCHANGED <<args, panicking, guardBranch, guardWt, repo, branchDir, template,
                   old, version, target, removed, dirMade, patches, editorExit, log,
                   pure, world>>

\* impl Drop for VersionDir: remove_dir_all(path).expect(..)
DropVersionDir ==
    /\ pc = "drop_dir" /\ result = "none"
    /\ \E ok \in BOOLEAN :
          /\ ~vdirs[target].exists => ~ok
          /\ vdirs' = IF ok THEN [vdirs EXCEPT ![target] = NoDir] ELSE vdirs
          /\ panicking' = (panicking \/ ~ok)
          /\ guardDir' = FALSE
          /\ Finish(IF panicking /\ ~ok THEN "abort"
                    ELSE IF panicking \/ ~ok THEN "panic"
                    ELSE IF error = "none" THEN "ok" ELSE "err")
    /\ UNCHANGED <<args, error, guardBranch, guardWt, repo, branchDir, template, old,
                   locals, log, pure, world>>

\* what a successful first run on branch b has stored
Stored(b) ==
    {[path |-> BranchPathOf(b) \o <<"/">> \o COVER_LETTER_NAME,
      text |-> <<TITLE_PREFIX, "Fix bug", NL, "Details here.">>]}
        \cup {[path |-> BranchPathOf(b) \o <<"/", "1", "/">> \o name,
               text |-> BindText(GeneratedFor("plain", NoneV).files[name],
                                 <<"Fix bug">>, <<"Details here.">>)] :
                  name \in DOMAIN GeneratedFor("plain", NoneV).files}

InitWorld(b, s, e) == branch = b /\ series = s /\ elsewhere = e

InitRun ==
    /\ pc = "idle"
    /\ args = [cmd |-> "none", version |-> NoneV, force |-> FALSE, diff |-> NoneV,
               send |-> FALSE, local_only |-> FALSE, verbose |-> FALSE]
    /\ result = "none"
    /\ error = "none"
    /\ panicking = FALSE
    /\ guardBranch = FALSE /\ guardWt = FALSE /\ guardDir = FALSE
    /\ tbranch = FALSE
    /\ worktree = "none"
    /\ tmpdir = FALSE
    /\ stalePin = FALSE
    /\ branchDir = (ElsewhereEntries(BranchPath) # {})
    /\ template = NoTemplate
    /\ vdirs = [n \in Versions |-> NoDir]
    /\ old = [vdirs |-> vdirs, template |-> template]
    /\ version = NoneV /\ target = 0 /\ removed = FALSE /\ dirMade = FALSE
    /\ patches = <<>> /\ editorExit = "none"
    /\ preBind = [name |-> <<>>, text |-> <<>>]
    /\ log = <<>>
    /\ runs = 0
    /\ lvOut = Ret("unset", 0)

Init == InitWorld(BRANCH, "plain", {}) /\ InitRun /\ lvIn = [exists |-> TRUE, entries |-> {}]

Next ==
    \/ \E v \in OptVersion, f \in BOOLEAN, d \in OptVersion : Start(v, f, d, FALSE)
    \/ ShowCurrentBranch
    \/ RemoteGetUrl
    \/ Allocate
    \/ CreateBranch
    \/ CreateTempDir
    \/ WorktreeAdd
    \/ Switch
    \/ ReadOld
    \/ ApplyOld
    \/ FormatPatchCmd
    \/ DropWorktree
    \/ DropBranch
    \/ Draft
    \/ Editor
    \/ Bind
    \/ DropVersionDir

Spec == Init /\ [][Next]_vars

(***************************************************************************)
(* The same runs on other branches and other series.  A store holds the    *)
(* directories of the branches the repository had before: here the one a   *)
(* first run on another branch left.  The branch feature/1 is what the     *)
(* branch feature is called once it has been renamed.                      *)
(***************************************************************************)
World(b, s, e) == [branch |-> b, series |-> s, elsewhere |-> e]

BranchWorlds ==
    {World(BRANCH, "plain", Stored(<<"fix-", "cover-letter">>)),
     World(<<"fix-", "cover-letter">>, "plain", Stored(BRANCH)),
     World(<<"feature", "/", "1">>, "plain", Stored(BRANCH))}

SeriesWorlds == {World(BRANCH, s, {}) : s \in Series}

InitIn(worlds) ==
    /\ \E w \in worlds : InitWorld(w.branch, w.series, w.elsewhere)
    /\ InitRun
    /\ lvIn = [exists |-> TRUE, entries |-> {}]

InitBranches == InitIn(BranchWorlds)

SpecBranches == InitBranches /\ [][Next]_vars

InitSeries == InitIn(SeriesWorlds)

SpecSeries == InitSeries /\ [][Next]_vars

(***************************************************************************)
(* The other commands: send, delete and list, on the branch checked out.   *)
(***************************************************************************)
\* a new invocation of another command, at its first step
Invoke(a, at) ==
    /\ runs < MaxRuns
    /\ runs' = runs + 1
    /\ args' = a
    /\ pc' = at
    /\ result' = "none"
    /\ error' = "none"
    /\ panicking' = FALSE
    /\ guardBranch' = FALSE /\ guardWt' = FALSE /\ guardDir' = FALSE
    /\ stalePin' = (stalePin \/ worktree = "on_branch")
    /\ worktree' = "none"
    /\ tmpdir' = FALSE
    /\ old' = [vdirs |-> vdirs, template |-> template]
    /\ version' = NoneV /\ target' = 0 /\ removed' = FALSE /\ dirMade' = FALSE
    /\ patches' = <<>> /\ editorExit' = "none"
    /\ preBind' = [name |-> <<>>, text |-> <<>>]
    /\ log' = <<>>
    /\ UNCHANGED <<tbranch, store, lvIn, lvOut, world>>

\* `gsm send [-v n]`
StartSend(v) ==
    /\ pc \in {"idle", "done"}
    /\ Invoke([cmd |-> "send", version |-> v, force |-> FALSE, diff |-> NoneV,
               send |-> FALSE, local_only |-> FALSE, verbose |-> FALSE], "send_branch")

\* git branch --show-current
SendShowCurrentBranch ==
    /\ Running("send_branch")
    /\ \E ok \in BOOLEAN :
          /\ Issue("branch --show-current", ok)
          /\ IF ok THEN Goto("send_version") ELSE Raise("git")
    /\ UNCHANGED <<args, panicking, guards, repo, store, old, locals, pure, world>>

\* the version to send: the one given, or the latest of the branch directory
SendVersion ==
    /\ Running("send_version")
    /\ LET lv == LatestVersion(branchDir, BranchEntries)
       IN IF args.version.some
          THEN version' = args.version /\ Goto("send_mail") /\ UNCHANGED panicking
          ELSE CASE lv.kind = "Err" ->
                      Raise("io") /\ UNCHANGED <<version, panicking>>
                 [] lv.kind = "None" ->
                      Raise("NoPatchSet") /\ UNCHANGED <<version, panicking>>
                 [] lv.kind = "panic" ->
                      /\ panicking' = TRUE
                      /\ Finish("panic")
                      /\ UNCHANGED <<version, error>>
                 [] lv.kind = "Some" ->
                      /\ version' = SomeV(lv.v)
                      /\ Goto("send_mail")
                      /\ UNCHANGED panicking
    /\ UNCHANGED <<args, guards, repo, store, old, target, removed, dirMade, patches,
                   editorExit, preBind, log, pure, world>>

\* git send-email [sendmail_args] <version_dir>: it cannot succeed on a
\* directory that is not there
SendEmail ==
    /\ Running("send_mail")
    /\ \E out \in {"ok", "not launched", "nonzero"} :
          /\ out = "ok" => version.v \in Versions /\ vdirs[version.v].exists
          /\ Issue("send-email", out = "ok")
          /\ CASE out = "ok" -> Finish("ok") /\ UNCHANGED error
               [] out = "not launched" -> Raise("io")
               [] out = "nonzero" -> Raise("send")
    /\ UNCHANGED <<args, panicking, guards, repo, store, old, locals, pure, world>>

\* `gsm delete [--local-only] [--force]`
StartDelete(l, f) ==
    /\ pc \in {"idle", "done"}
    /\ Invoke([cmd |-> "delete", version |-> NoneV, force |-> f, diff |-> NoneV,
               send |-> FALSE, local_only |-> l, verbose |-> FALSE], "delete_branch")

\* git branch --show-current
DeleteShowCurrentBranch ==
    /\ Running("delete_branch")
    /\ \E ok \in BOOLEAN :
          /\ Issue("branch --show-current", ok)
          /\ IF ok THEN Goto("delete_probe") ELSE Raise("git")
    /\ UNCHANGED <<args, panicking, guards, repo, store, old, locals, pure, world>>

\* git rev-parse @{u}, looked at with is_ok(): a failure means no upstream
DeleteRevParse ==
    /\ Running("delete_probe")
    /\ \E ok \in BOOLEAN :
          /\ Issue("rev-parse @{u}", ok)
          /\ Goto(IF ok /\ ~args.local_only THEN "delete_push" ELSE "delete_switch")
    /\ UNCHANGED <<args, panicking, guards, repo, store, old, locals, pure, world>>

\* git push -d origin <branch>
DeletePush ==
    /\ Running("delete_push")
    /\ \E ok \in BOOLEAN :
          /\ Issue("push -d", ok)
          /\ IF ok THEN Goto("delete_switch") ELSE Raise("git")
    /\ UNCHANGED <<args, panicking, guards, repo, store, old, locals, pure, world>>

\* the branch to delete is the one checked out: git switch <base>
DeleteSwitch ==
    /\ Running("delete_switch")
    /\ \E ok \in BOOLEAN :
          /\ Issue("switch base", ok)
          /\ IF ok THEN Goto("delete_local") ELSE Raise("git")
    /\ UNCHANGED <<args, panicking, guards, repo, store, old, locals, pure, world>>

\* git branch -d|-D <branch>
DeleteLocal ==
    /\ Running("delete_local")
    /\ \E ok \in BOOLEAN :
          /\ Issue(IF args.force THEN "branch -D <branch>" ELSE "branch -d <branch>", ok)
          /\ IF ok THEN Goto("delete_dir") ELSE Raise("git")
    /\ UNCHANGED <<args, panicking, guards, repo, store, old, locals, pure, world>>

\* remove_dir_all(branch_dir)
DeleteDir ==
    /\ Running("delete_dir")
    /\ IF ~branchDir
       THEN Raise("io") /\ UNCHANGED <<store, elsewhere>>
       ELSE /\ branchDir' = FALSE
            /\ template' = NoTemplate
            /\ vdirs' = [n \in Versions |-> NoDir]
            /\ elsewhere' = {f \in elsewhere : ~Under(f.path, BranchPath)}
            /\ Finish("ok")
            /\ UNCHANGED error
    /\ UNCHANGED <<args, panicking, guards, repo, old, locals, log, pure, branch, series>>

\* `gsm list [--verbose]`
StartList(vb) ==
    /\ pc \in {"idle", "done"}
    /\ Invoke([cmd |-> "list", version |-> NoneV, force |-> FALSE, diff |-> NoneV,
               send |-> FALSE, local_only |-> FALSE, verbose |-> vb], "list")

\* names of the entries of directory d of the patch directory
EntriesOf(d) ==
    ElsewhereEntries(d)
        \cup (IF d = <<".patches">> /\ branchDir THEN {FirstComponent(branch)} ELSE {})
        \cup (IF d = BranchPath THEN BranchEntries ELSE {})
        \cup (IF Under(BranchPath, d) /\ d # <<".patches">> /\ branchDir
              THEN {FirstComponent(SubSeq(BranchPath, Len(d) + 2, Len(BranchPath)))}
              ELSE {})

\* what the loop of List::run comes to on one entry of the patch directory
ListEntry(name) ==
    LET dir == <<".patches", "/">> \o name
        lv == LatestVersion(TRUE, EntriesOf(dir))
        shown == dir \o <<"/">> \o ToStr(lv.v)
    IN IF lv.kind = "panic" THEN "panic"
       ELSE IF lv.kind = "Some" /\ args.verbose /\ EntriesOf(shown) = {}
                /\ ~(dir = BranchPath /\ lv.v \in Versions /\ vdirs[lv.v].exists)
          THEN "err"
       ELSE "ok"

\* List::run: no external command, one latest_version per branch directory
ListBranches ==
    /\ Running("list")
    /\ LET outcomes == {ListEntry(n) : n \in EntriesOf(<<".patches">>) \ {<<"config.toml">>}}
       IN IF "panic" \in outcomes
          THEN panicking' = TRUE /\ Finish("panic") /\ UNCHANGED error
          ELSE IF "err" \in outcomes
          THEN Raise("io") /\ UNCHANGED panicking
          ELSE Finish("ok") /\ UNCHANGED <<error, panicking>>
    /\ UNCHANGED <<args, guards, repo, store, old, locals, log, pure, world>>

\* the four commands; format-patch is run without -d here, its interdiff
\* steps are the matter of Spec
NextTool ==
    \/ \E v \in OptVersion, f \in BOOLEAN, s \in BOOLEAN : Start(v, f, NoneV, s)
    \/ ShowCurrentBranch
    \/ RemoteGetUrl
    \/ Allocate
    \/ FormatPatchCmd
    \/ Draft
    \/ Editor
    \/ Bind
    \/ DropVersionDir
    \/ \E v \in OptVersion : StartSend(v)
    \/ SendShowCurrentBranch
    \/ SendVersion
    \/ SendEmail
    \/ \E l \in BOOLEAN, f \in BOOLEAN : StartDelete(l, f)
    \/ DeleteShowCurrentBranch
    \/ DeleteRevParse
    \/ DeletePush
    \/ DeleteSwitch
    \/ DeleteLocal
    \/ DeleteDir
    \/ \E vb \in BOOLEAN : StartList(vb)
    \/ ListBranches

SpecTool == Init /\ [][NextTool]_vars

(***************************************************************************)
(* latest_version applied to a directory listing of its own.               *)
(***************************************************************************)
EntryNames == {ToStr(n) : n \in 0..MaxEntry} \cup {COVER_LETTER_NAME, <<"config.toml">>}

Listings ==
    {[exists |-> FALSE, entries |-> {}]}
        \cup {[exists |-> TRUE, entries |-> e] : e \in SUBSET EntryNames}

InitLatest == InitWorld(BRANCH, "plain", {}) /\ InitRun /\ lvIn \in Listings

ApplyLatest ==
    /\ lvOut.kind = "unset"
    /\ lvOut' = LatestVersion(lvIn.exists, lvIn.entries)
    /\ UNCHANGED <<pc, args, result, error, panicking, guards, repo, store, old,
                   locals, log, runs, lvIn, world>>

NextLatest == ApplyLatest

SpecLatest == InitLatest /\ [][NextLatest]_vars

(***************************************************************************)
(* Properties.                                                             *)
(***************************************************************************)
Range(s) == {s[i] : i \in 1..Len(s)}

Issued(name) == \E c \in Range(log) : c.cmd = name

MaxOf(S) == CHOOSE m \in S : \A n \in S : m >= n

\* C1: when a run with an interdiff returns (Ok or Err), the transient branch
\* it created and its transient worktree and temporary directory are gone.
C1_NoTransientLeftAfterReturn ==
    result \in {"ok", "err"} =>
        /\ Cmd("branch", TRUE) \in Range(log) => ~tbranch
        /\ worktree = "none"
        /\ ~tmpdir

C1_Witness ==
    /\ result = "err"
    /\ Cmd("worktree add", TRUE) \in Range(log)
    /\ Cmd("am -3", FALSE) \in Range(log)
    /\ ~tbranch /\ worktree = "none"

\* C2 as stated: once the worktree has been added, `branch -D` is issued
\* only after `worktree remove` has been issued and has returned, and the
\* branch is never deleted while the worktree still exists.
C2_Order ==
    \A i \in 1..Len(log) :
        (log[i].cmd = "branch -D" /\ \E k \in 1..i : log[k] = Cmd("worktree add", TRUE))
            => \E j \in 1..i : log[j].cmd = "worktree remove"

C3_FailedRunLeavesNoVersionDir ==
    (result = "err" /\ dirMade) => ~vdirs[target].exists

\* C4: a run whose target version directory exists, without --force, fails
\* with the version conflict and leaves the store as it was.
C4_ConflictLeavesStoreUntouched ==
    (target # 0 /\ old.vdirs[target].exists /\ ~args.force) =>
        /\ result = "err"
        /\ error = "VersionConflict"
        /\ vdirs = old.vdirs
        /\ template = old.template
        /\ log = <<Cmd("branch --show-current", TRUE), Cmd("remote get-url", TRUE)>>

C4_Witness ==
    /\ error = "VersionConflict"
    /\ result = "err"
    /\ \E n \in DOMAIN vdirs[target].files : EndsWith(n, COVER_LETTER_SUFFIX)

\* C5 as stated: after the allocation of a run with --force on an existing
\* version directory, and before the patch generation command is issued, the
\* version directory exists and is empty.
C5_ForcedDirExistsEmpty ==
    (removed /\ ~Issued("format-patch")) => vdirs[target] = EmptyDir

\* C5 as amended: after such an allocation, and until the patch generation
\* command is issued, the version directory does not exist (nothing of its
\* previous contents remains).
C5_ForcedDirAbsent ==
    (removed /\ ~Issued("format-patch")) => vdirs[target] = NoDir

C5_Witness ==
    /\ pc = "fmt"
    /\ args.force
    /\ removed
    /\ old.vdirs[target].exists
    /\ ~vdirs[target].exists

\* C6: latest_version returns None exactly when the directory has no entry;
\* otherwise Some(m), m the greatest numeric entry name, cover-letter being
\* ignored, and 0 when cover-letter is the only entry.
NumberNamed(name) == CHOOSE n \in 0..MaxEntry : ToStr(n) = name

C6_LatestVersionIsMax ==
    (/\ lvOut.kind # "unset"
     /\ lvIn.exists
     /\ lvIn.entries \subseteq {ToStr(n) : n \in 0..MaxEntry} \cup {COVER_LETTER_NAME})
        => LET numbers == {NumberNamed(e) : e \in lvIn.entries \ {COVER_LETTER_NAME}}
           IN /\ lvOut.kind = "None" <=> lvIn.entries = {}
              /\ lvIn.entries # {} =>
                    /\ lvOut.kind = "Some"
                    /\ lvOut.v = MaxOf(numbers \cup {0})
              /\ lvIn.entries = {COVER_LETTER_NAME} => lvOut = Ret("Some", 0)

C6_Witness ==
    /\ lvIn.entries = {ToStr(1), ToStr(2), ToStr(5)}
    /\ lvOut = Ret("Some", 5)

\* C7: a run without an explicit version targets latest+1, or 1 when the
\* branch has no version: a number greater than every version directory
\* present, so it never ends in a version conflict.
C7_AutoVersionIsFresh ==
    (~args.version.some /\ target # 0) =>
        LET present == {n \in Versions : old.vdirs[n].exists}
        IN /\ target = IF present = {} THEN 1 ELSE MaxOf(present) + 1
           /\ \A n \in present : target > n
           /\ error # "VersionConflict"

C7_Witness ==
    /\ ~args.version.some
    /\ target = 2
    /\ old.vdirs[1].exists
    /\ result = "ok"

\* the bind phase of the run has read and parsed the template
Parsed == editorExit # "none" /\ pc # "bind" /\ template.exists

NoNewline(text) == \A i \in 1..Len(text) : text[i] # NL

FirstLine(text) ==
    LET ends == {i \in 1..Len(text) : text[i] = NL}
    IN IF ends = {} THEN text
       ELSE SubSeq(text, 1, (CHOOSE i \in ends : \A j \in ends : i <= j) - 1)

NoTitlePrefix(text) == FirstLine(text) = <<>> \/ FirstLine(text)[1] # TITLE_PREFIX

NothingBound == result # "ok" /\ preBind.name = <<>>

\* C8 as stated: a first line without `Title: ` gives the missing-prefix
\* error, a template without any newline gives the missing-newline error,
\* and in both cases no cover-letter patch is rewritten.
C8_PrefixAndNewlineErrors ==
    Parsed =>
        /\ NoTitlePrefix(template.text) => error = "MissingTitlePrefix" /\ NothingBound
        /\ NoNewline(template.text) => error = "MissingTitleNewline" /\ NothingBound

\* C8 as amended: the newline is looked for first, so a template without any
\* newline gives the missing-newline error whatever its first line is, and
\* the missing-prefix error is given only to a template that has a newline.
C8_NewlineCheckedFirst ==
    Parsed =>
        /\ (NoTitlePrefix(template.text) /\ ~NoNewline(template.text))
               => error = "MissingTitlePrefix" /\ NothingBound
        /\ NoNewline(template.text) => error = "MissingTitleNewline" /\ NothingBound

C8_Witness ==
    /\ Parsed
    /\ result = "err"
    /\ error = "MissingTitleNewline"
    /\ NoTitlePrefix(template.text)

\* the text with its subject marker and its blurb marker each replaced once,
\* everything else, the inserted text included, left as it is
RECURSIVE Splice(_, _, _)
Splice(s, title, body) ==
    IF s = <<>> THEN <<>>
    ELSE (IF Head(s) = SUBJECT_MARKER THEN title
          ELSE IF Head(s) = BLURB_MARKER THEN body
          ELSE <<Head(s)>>) \o Splice(Tail(s), title, body)

\* C9: the rewritten cover-letter patch is the generated one with the
\* subject marker replaced once by the trimmed title and the blurb marker
\* once by the trimmed body, nothing else altered.
C9_MarkersReplacedOnce ==
    result = "ok" =>
        LET lines == SplitOnce(template.text)
        IN vdirs[target].files[preBind.name] =
               Splice(preBind.text, Trim(Tail(lines.fst)), Trim(lines.snd))

\* C10: an editor that exits with a non-zero status makes the run fail, and
\* the bind phase is not performed.
C10_EditorFailureFailsRun ==
    editorExit = "nonzero" => NothingBound

\* C11: a run that is failing with an error E still ends reporting E when a
\* cleanup step of its unwinding fails.
C11_CleanupFailureKeepsPrimaryError ==
    (result # "none" /\ error # "none") => result = "err"

\* names differing in one digit, compared as text
LexLess(a, b) ==
    \E i \in 1..Len(a) :
        /\ i <= Len(b)
        /\ SubSeq(a, 1, i - 1) = SubSeq(b, 1, i - 1)
        /\ a[i] \in DigitSet /\ b[i] \in DigitSet
        /\ DigitVal(a[i]) < DigitVal(b[i])

\* C15: the old version's patches are handed to `am -3` in lexical order of
\* their names, whatever order the directory yields them in.
C15_AppliedInLexicalOrder ==
    Issued("am -3") =>
        \A i, j \in 1..Len(patches) : i < j => LexLess(patches[i], patches[j])

\* C16: a run that returns Ok leaves the target version directory, with the
\* files generated into it, in place: the guard is forgotten, not dropped.
C16_SuccessKeepsVersionDir ==
    result = "ok" =>
        /\ vdirs[target].exists
        /\ DOMAIN vdirs[target].files # {}
        /\ ~guardDir

C16_Witness ==
    /\ result = "ok"
    /\ vdirs[target].exists
    /\ preBind.name \in DOMAIN vdirs[target].files

\* C19: the tool writes the template only when there is none; a template
\* that exists reaches the editor as the previous run left it, and nothing
\* but the editor changes it afterwards, in failed runs too.
C19_TemplateKept ==
    /\ [](pc = "editor" /\ old.template.exists => template = old.template)
    /\ [][template' # template =>
            \/ pc = "editor"
            \/ pc = "draft" /\ ~template.exists /\ template' = File(InitialTemplate)]_vars

C19_Witness ==
    /\ pc = "editor"
    /\ runs > 1
    /\ old.template.exists
    /\ template = old.template
    /\ template.text # InitialTemplate

\* C17: the bind phase rewrites a cover-letter patch only when exactly one
\* file of the version directory ends in the cover-letter suffix.
C17_RewritesOnlyUniqueCover ==
    preBind.name # <<>> =>
        Cardinality({n \in DOMAIN vdirs[target].files :
                        EndsWith(n, COVER_LETTER_SUFFIX)}) = 1

\* the cover-letter patch of a version directory
IsCoverPatch(name) == EndsWith(name, <<"0000-">> \o COVER_LETTER_SUFFIX)

\* C18: the files handed to `am -3` are the files of the old version
\* directory other than its cover-letter patch, whatever the branch is called.
C18_AppliesAllButCoverPatch ==
    Issued("am -3") =>
        Range(patches) =
            {VersionPath(args.diff.v) \o <<"/">> \o name :
                name \in {n \in DOMAIN vdirs[args.diff.v].files : ~IsCoverPatch(n)}}

\* the files and directories of the branch directory, by path
OwnFiles(t, vd) ==
    (IF t.exists
     THEN {[path |-> BranchPath \o <<"/">> \o COVER_LETTER_NAME, text |-> t.text]}
     ELSE {})
        \cup {[path |-> VersionPath(n), text |-> <<"directory">>] :
                 n \in {m \in Versions : vd[m].exists}}
        \cup UNION {{[path |-> VersionPath(n) \o <<"/">> \o name,
                      text |-> vd[n].files[name]] : name \in DOMAIN vd[n].files} :
                       n \in Versions}

\* what the patch directory holds inside directory d
Inside(d, t, vd) == {f \in elsewhere \cup OwnFiles(t, vd) : Under(f.path, d)}

\* the branches other than the run's that have a directory in the store
OtherBranches ==
    {b \in Branches \ {branch} : \E f \in elsewhere : Under(f.path, BranchPathOf(b))}

\* C20: a run leaves every version directory but its target as it was, and
\* everything inside the directory of another branch as it was.
C20_RunTouchesOnlyItsTarget ==
    /\ \A m \in Versions \ {target} : vdirs[m] = old.vdirs[m]
    /\ \A b \in OtherBranches :
          Inside(BranchPathOf(b), template, vdirs)
              = Inside(BranchPathOf(b), old.template, old.vdirs)

\* commands issued by the Drop impls
CleanupCommands == {"worktree remove", "branch -D"}

\* C12: once an external command of an invocation has failed, nothing but
\* cleanup is issued after it and the invocation does not end in success.
C12_FailureIsTerminal ==
    \A i \in 1..Len(log) :
        ~log[i].ok =>
            /\ result # "ok"
            /\ \A j \in (i + 1)..Len(log) : log[j].cmd \in CleanupCommands

\* C13: send without a version, on a branch none of whose versions is
\* stored, never launches the mail sender.
C13_SendWithoutVersionFails ==
    (args.cmd = "send" /\ ~args.version.some /\ \A n \in Versions : ~vdirs[n].exists) =>
        ~Issued("send-email")

\* C14: a format-patch run given --send that returns Ok has issued the mail
\* sender.
C14_SendFlagSends ==
    (args.cmd = "format-patch" /\ args.send /\ result = "ok") => Issued("send-email")

\* a format-patch run with --force whose -d names the version it writes
SelfInterdiff ==
    /\ args.cmd = "format-patch"
    /\ args.force
    /\ args.diff.some
    /\ target = args.diff.v \/ args.version = args.diff

====
